---- MODULE Spec2Model ----
(***************************************************************************)
(* Model of pyspeckit/spectrum/models/model.py: class SpectralModel.       *)
(*                                                                         *)
(* Python values are encoded as follows.                                   *)
(*   - an optional argument is a sequence: <<>> is None, <<v>> is v;       *)
(*   - numbers are integers, and Python's False / True are 0 / 1 (bool is  *)
(*     an int subclass and False == 0, True == 1);                         *)
(*   - a parameter name is a sequence of one-character strings, so that    *)
(*     str.upper, "%0i" formatting and the 'AMP' substring test are        *)
(*     computed rather than assumed;                                       *)
(*   - a float sample of the data / error arrays is a record               *)
(*     [k |-> "num", v |-> n], or [k |-> "nan"], [k |-> "inf"],            *)
(*     [k |-> "ninf"] written Num(n), NaN, PosInf, NegInf.                 *)
(***************************************************************************)
EXTENDS Integers, Sequences, FiniteSets, TLC

\* Bounds of the model.
MaxPars == 2
MaxPeaks == 2
MaxLen == 2

None == <<>>
Some(v) == <<v>>

(***************************************************************************)
(* Strings as character sequences                                          *)
(***************************************************************************)
LowerChars == <<"a","b","c","d","e","f","g","h","i","j","k","l","m",
                "n","o","p","q","r","s","t","u","v","w","x","y","z">>
UpperChars == <<"A","B","C","D","E","F","G","H","I","J","K","L","M",
                "N","O","P","Q","R","S","T","U","V","W","X","Y","Z">>

\* the upper-case letter of each lower-case letter
UpperTable ==
    [c \in {LowerChars[i] : i \in 1..Len(LowerChars)} |->
        UpperChars[CHOOSE i \in 1..Len(LowerChars) : LowerChars[i] = c]]

\* str.upper on one character
UpperChar(c) == IF c \in DOMAIN UpperTable THEN UpperTable[c] ELSE c

\* str.upper
Upper(s) == [i \in 1..Len(s) |-> UpperChar(s[i])]

DigitChars == <<"0","1","2","3","4","5","6","7","8","9">>

\* "%0i" % n for n >= 0
RECURSIVE FormatInt(_)
FormatInt(n) ==
    IF n < 10 THEN <<DigitChars[n + 1]>>
    ELSE FormatInt(n \div 10) \o <<DigitChars[(n % 10) + 1]>>

\* needle in hay (Python substring test)
Contains(hay, needle) ==
    \E i \in 0..(Len(hay) - Len(needle)) :
        \A j \in 1..Len(needle) : hay[i + j] = needle[j]

\* the amplitude marker of the 'AMP' in p['parname'] test
AmpMarker == <<"A","M","P">>

(***************************************************************************)
(* Sequence helpers                                                        *)
(***************************************************************************)
MinOf(a, b) == IF a < b THEN a ELSE b

\* zip(a, b): a list of pairs as long as the shorter argument
Zip(a, b) == [i \in 1..MinOf(Len(a), Len(b)) |-> <<a[i], b[i]>>]

\* (v,) * n and [v] * n
Repeat(v, n) == [i \in 1..n |-> v]

\* np.zeros(n, dtype='bool')
Zeros(n) == Repeat(0, n)

\* test data: n distinct numbers, n distinct pairs
Vals(base, n) == [i \in 1..n |-> base + i]
Pairs(base, n) == [i \in 1..n |-> <<base + i, base + 100 + i>>]

(***************************************************************************)
(* SpectralModel._make_parinfo                                             *)
(***************************************************************************)
\* The keyword arguments of _make_parinfo, all left at their defaults.
\* npeaks and shortvarnames are None here when the caller does not pass
\* them; NpeaksArg and ShortvarnamesArg apply the signature's defaults.
KwDefault ==
    [params |-> None, parnames |-> None, parvalues |-> None,
     parlimits |-> None, parlimited |-> None, parfixed |-> None,
     parerror |-> None, partied |-> None, fitunits |-> None,
     parsteps |-> None, npeaks |-> None, shortvarnames |-> None,
     parinfo |-> None, names |-> None, values |-> None, limits |-> None,
     limited |-> None, fixed |-> None, error |-> None, tied |-> None,
     steps |-> None, negamp |-> None, limitedmin |-> None,
     limitedmax |-> None, minpars |-> None, maxpars |-> None,
     extra |-> {}]

\* shortvarnames=("A","\\Delta x","\\sigma") of the signature
DefaultShortvarnames == <<"A", "\\Delta x", "\\sigma">>

\* npeaks=1 of the signature
NpeaksArg(kw) == IF kw.npeaks = None THEN 1 ELSE kw.npeaks[1]

ShortvarnamesArg(kw) ==
    IF kw.shortvarnames = None THEN DefaultShortvarnames
    ELSE kw.shortvarnames[1]

\* Alias with the assignment of lines 78-80 lost: the legacy name is ignored
AliasIgnored(canonical, legacy) == canonical

\* lines 76-80: a legacy alias that is not None overwrites the canonical name
Alias(canonical, legacy) == IF legacy # None THEN legacy ELSE canonical

\* PairForm that keeps limits already set: the first write wins
PairFormFirstWins(lo, hi, parnames, parlimits) ==
    IF parlimits # None THEN parlimits
    ELSE IF lo # None
    THEN IF hi # None
         THEN Some(Zip(lo[1], hi[1]))
         ELSE Some(Zip(lo[1], Repeat(0, Len(parnames))))
    ELSE IF hi # None
         THEN Some(Zip(Repeat(0, Len(parnames)), hi[1]))
         ELSE parlimits

\* lines 94-108: one pair form (limitedmin/limitedmax or minpars/maxpars)
PairForm(lo, hi, parnames, parlimits) ==
    IF lo # None
    THEN IF hi # None
         THEN Some(Zip(lo[1], hi[1]))
         ELSE Some(Zip(lo[1], Repeat(0, Len(parnames))))
    ELSE IF hi # None
         THEN Some(Zip(Repeat(0, Len(parnames)), hi[1]))
         ELSE parlimits

\* ActivePeaks read before line 112 has stored the argument: the peak count
\* the call before left in self.npeaks
ActivePeaksStale(self, kw) == self.npeaks

\* lines 112, 116: the peak count the table is built for is the npeaks
\* argument, which line 112 has stored in self.npeaks by then
ActivePeaks(self, kw) == NpeaksArg(kw)

\* lines 116-118: a list left None becomes np.zeros(npars*npeaks, dtype='bool')
OrZeros(arg, n) == IF arg = None THEN Zeros(n) ELSE arg[1]

\* line 125: the 'n' of the entry of peak jj, parameter ii
FlatIndex(np, jj, ii) == ii + np * jj

\* lines 125-133: one entry of the table; d is temp_pardict.  A tie is a
\* string; the zeros left in partied when it is None are falsy like "", and
\* are written "" in d.
ParinfoEntry(d, np, jj, ii) ==
    LET k == FlatIndex(np, jj, ii) + 1 IN
    [n       |-> FlatIndex(np, jj, ii),
     value   |-> d.parvalues[k],
     step    |-> d.parsteps[k],
     limits  |-> d.parlimits[k],
     limited |-> d.parlimited[k],
     fixed   |-> d.parfixed[k],
     parname |-> Upper(d.parnames[ii + 1]) \o FormatInt(jj),
     error   |-> d.parerror[k],
     tied    |-> IF d.partied[k] # "" THEN d.partied[k] ELSE ""]

\* NegampEntry that enables both flags of an amplitude entry
NegampEntryBothFlags(p, negamp) ==
    IF negamp = None \/ ~Contains(p.parname, AmpMarker) THEN p
    ELSE IF negamp[1]
         THEN [p EXCEPT !.limited = <<1, 1>>,
                        !.limits  = <<p.limits[1], 0>>]
         ELSE [p EXCEPT !.limited = <<1, 1>>,
                        !.limits  = <<0, p.limits[2]>>]

\* lines 138-148: the negamp switch applied to one entry
NegampEntry(p, negamp) ==
    IF negamp = None \/ ~Contains(p.parname, AmpMarker) THEN p
    ELSE IF negamp[1]
         THEN [p EXCEPT !.limited = <<p.limited[1], 1>>,
                        !.limits  = <<p.limits[1], 0>>]
         ELSE [p EXCEPT !.limited = <<1, p.limited[2]>>,
                        !.limits  = <<0, p.limits[2]>>]

\* The outcome of a call that raised: no return value, attributes as given.
Raised(exc, self) ==
    [exc |-> exc, parinfo |-> <<>>, kwargs |-> {}, self |-> self]

\* lines 125-135: every index the comprehension reads exists
LongEnough(d, np, total) ==
    /\ Len(d.parnames) >= np
    /\ \A f \in {"parvalues", "parsteps", "parlimits", "parlimited",
                 "parfixed", "parerror", "partied"} : Len(d[f]) >= total

\* lines 125-150: the table for temp_pardict d, self1 being the attributes
\* as lines 87-112 left them; IndexError when a list of d is too short
BuildTable(self1, d, total, kw) ==
    LET np == self1.npars IN
    IF ~LongEnough(d, np, total)
    THEN Raised("IndexError", self1)
    ELSE LET table == [k \in 1..total |->
                         NegampEntry(ParinfoEntry(d, np, (k - 1) \div np,
                                                  (k - 1) % np), kw.negamp)]
         IN [exc |-> "", parinfo |-> table, kwargs |-> kw.extra,
             self |-> [self1 EXCEPT !.parinfo = table]]

\* _make_parinfo on the instance attributes `self` (a record with npars,
\* parnames, shortvarnames, fitunits, npeaks, parinfo; parnames is None while
\* the attribute does not exist) with keyword arguments kw.  The result holds
\* the exception raised ("" for none), the returned table and residual
\* keyword mapping, and the instance attributes after the call.
make_parinfo(self, kw) ==
    LET parnames0   == Alias(kw.parnames, kw.names)
        parvalues0  == Alias(kw.parvalues, kw.values)
        parsteps0   == Alias(kw.parsteps, kw.steps)
        parlimits0  == Alias(kw.parlimits, kw.limits)
        parlimited0 == Alias(kw.parlimited, kw.limited)
        parfixed0   == Alias(kw.parfixed, kw.fixed)
        parerror0   == Alias(kw.parerror, kw.error)
        partied0    == Alias(kw.partied, kw.tied)
    IN
    IF kw.params # None /\ parvalues0 # None
    THEN Raised("ValueError", self)
    ELSE IF parnames0 = None /\ self.parnames = None
    THEN Raised("AttributeError", self)
    ELSE
    LET parvalues1 == IF kw.params # None THEN kw.params ELSE parvalues0
        parnames1  == IF parnames0 # None THEN parnames0[1] ELSE self.parnames[1]
        short      == ShortvarnamesArg(kw)
        parlimits1 == PairForm(kw.limitedmin, kw.limitedmax, parnames1, parlimits0)
        parlimits2 == PairForm(kw.minpars, kw.maxpars, parnames1, parlimits1)
        np         == self.npars
        npk        == NpeaksArg(kw)
        total      == np * ActivePeaks(self, kw)
        self1 == [self EXCEPT
                    !.parnames = Some(parnames1),
                    !.shortvarnames = IF short # None THEN short ELSE @,
                    !.fitunits = kw.fitunits,
                    !.npeaks = npk]
        d == [parnames   |-> parnames1,
              parvalues  |-> OrZeros(parvalues1, total),
              parsteps   |-> OrZeros(parsteps0, total),
              parlimits  |-> IF parlimits2 # None THEN parlimits2[1]
                             ELSE Repeat(<<0, 0>>, total),
              parlimited |-> IF parlimited0 # None THEN parlimited0[1]
                             ELSE Repeat(<<0, 0>>, total),
              parfixed   |-> OrZeros(parfixed0, total),
              parerror   |-> OrZeros(parerror0, total),
              partied    |-> IF partied0 # None THEN partied0[1]
                             ELSE Repeat("", total)]
    IN BuildTable(self1, d, total, kw)

(***************************************************************************)
(* Floating-point samples                                                  *)
(***************************************************************************)
Num(n) == [k |-> "num", v |-> n]
NaN == [k |-> "nan", v |-> 0]
PosInf == [k |-> "inf", v |-> 0]
NegInf == [k |-> "ninf", v |-> 0]

\* np.isnan, np.isinf on one sample
IsNan(s) == s.k = "nan"
IsInf(s) == s.k = "inf" \/ s.k = "ninf"

(***************************************************************************)
(* Collaborators the class is given: the model function, the axis and the  *)
(* solver                                                                  *)
(***************************************************************************)
RECURSIVE SumSeq(_)
SumSeq(s) == IF s = <<>> THEN 0 ELSE s[1] + SumSeq(Tail(s))

RECURSIVE SumOptions(_)
SumOptions(S) ==
    IF S = {} THEN 0
    ELSE LET o == CHOOSE o \in S : TRUE IN o[2] + SumOptions(S \ {o})

\* A single-peak model function modelfunc(x, *pars, **kwargs): a line of
\* slope pars[0] through the sum of the other parameters and of the options.
modelfunc(x, pars, kwargs) ==
    [i \in 1..Len(x) |->
        (IF pars = <<>> THEN 0 ELSE pars[1] * x[i] + SumSeq(Tail(pars)))
        + SumOptions(kwargs)]

\* how many of a unit make one kHz
PerKHz(unit) == IF unit = "Hz" THEN 1000 ELSE 1

\* xax.convert_to_unit(unit) on a copy of the axis
ConvertToUnit(ax, unit) ==
    [ax EXCEPT !.unit = unit,
               !.vals = [i \in 1..Len(ax.vals) |->
                            (ax.vals[i] * PerKHz(unit)) \div PerKHz(ax.unit)]]

\* xax.x_to_pix(x): the 0-based index of the first sample at or beyond x
XToPix(ax, x) ==
    IF \E i \in 1..Len(ax.vals) : ax.vals[i] >= x
    THEN (CHOOSE i \in 1..Len(ax.vals) :
             /\ ax.vals[i] >= x
             /\ \A j \in 1..(i - 1) : ax.vals[j] < x) - 1
    ELSE Len(ax.vals) - 1

\* What mpfit may hand back for a table of n parameters: status 0 with its
\* message, or a fit with or without uncertainties and with a finite or NaN
\* chi^2.
SolverOutcomes(n) ==
    { [params |-> Vals(0, n), perror |-> None, status |-> 0,
       errmsg |-> "ERROR: input", fnorm |-> Num(0)],
      [params |-> Vals(0, n), perror |-> None, status |-> 1,
       errmsg |-> "", fnorm |-> Num(3)],
      [params |-> Vals(1, n), perror |-> Some(Repeat(1, n)), status |-> 2,
       errmsg |-> "", fnorm |-> NaN] }

(***************************************************************************)
(* SpectralModel.n_modelfunc                                               *)
(***************************************************************************)
\* pars[a:b]
Slice(s, a, b) ==
    LET hi == MinOf(b, Len(s)) IN
    [i \in 1..(IF hi > a THEN hi - a ELSE 0) |-> s[a + i]]

VecAdd(u, v) == [i \in 1..Len(u) |-> u[i] + v[i]]

\* ComposedPeaks taken from the stored peak count
ComposedPeaksStored(self, pars) == self.npeaks

\* line 161: len(pars)/self.npars, the number of peaks summed
ComposedPeaks(self, pars) == Len(pars) \div self.npars

\* lines 161-162: the loop over the peaks from peak jj on, v the sum so far
RECURSIVE PeakLoop(_, _, _, _, _, _)
PeakLoop(self, pars, kwargs, x, jj, v) ==
    IF jj >= ComposedPeaks(self, pars) THEN v
    ELSE PeakLoop(self, pars, kwargs, x, jj + 1,
                  VecAdd(v, modelfunc(x, Slice(pars, jj * self.npars,
                                               (jj + 1) * self.npars), kwargs)))

\* n_modelfunc(pars, **kwargs)(x)
n_modelfunc(self, pars, kwargs, x) ==
    PeakLoop(self, pars, kwargs, x, 0, Zeros(Len(x)))

(***************************************************************************)
(* SpectralModel.fitter                                                    *)
(***************************************************************************)
\* Sanitize that looks for NaN only
SanitizeNanOnly(data, err) ==
    [data |-> [i \in 1..Len(data) |-> IF IsNan(data[i]) THEN Num(0) ELSE data[i]],
     err  |-> [i \in 1..Len(err) |->
                 IF i <= Len(data) /\ IsNan(data[i]) THEN PosInf ELSE err[i]]]

\* lines 228-230 with an error array: err[nan or inf] = inf, data[...] = 0
Sanitize(data, err) ==
    [data |-> [i \in 1..Len(data) |->
                 IF IsNan(data[i]) \/ IsInf(data[i]) THEN Num(0) ELSE data[i]],
     err  |-> [i \in 1..Len(err) |->
                 IF i <= Len(data) /\ (IsNan(data[i]) \/ IsInf(data[i]))
                 THEN PosInf ELSE err[i]]]

\* line 228: np.any(np.isnan(data)) or np.any(np.isinf(data))
AnyBad(data) == \E i \in 1..Len(data) : IsNan(data[i]) \/ IsInf(data[i])

\* AfterSolver with the status test moved behind the assignments
AfterSolverStoreFirst(sol, debug) ==
    IF sol.status = 0
    THEN [exc |-> "Exception", msg |-> sol.errmsg, stores |-> TRUE]
    ELSE IF IsNan(sol.fnorm) /\ debug
    THEN [exc |-> "ValueError", msg |-> "Error: chi^2 is nan", stores |-> TRUE]
    ELSE [exc |-> "", msg |-> "", stores |-> TRUE]

\* lines 242-263: how the call ends once mpfit has returned sol, and whether
\* lines 254-257 (the assignments of mp, mpp, mpperr, model) are reached
AfterSolver(sol, debug) ==
    IF sol.status = 0
    THEN [exc |-> "Exception", msg |-> sol.errmsg, stores |-> FALSE]
    ELSE IF IsNan(sol.fnorm) /\ debug
    THEN [exc |-> "ValueError", msg |-> "Error: chi^2 is nan", stores |-> TRUE]
    ELSE [exc |-> "", msg |-> "", stores |-> TRUE]

\* lines 249-250 (veryverbose): self.parinfo[i]['value'] = p for each fitted
\* p, as far as self.parinfo reaches
WriteValues(table, pars) ==
    [i \in 1..Len(table) |->
        IF i <= Len(pars) THEN [table[i] EXCEPT !.value = pars[i]] ELSE table[i]]

(***************************************************************************)
(* Result accessors                                                        *)
(***************************************************************************)
\* np.diff
Diff(v) == [i \in 1..(Len(v) - 1) |-> v[i + 1] - v[i]]

\* s[a:b] with Python's treatment of negative and out-of-range bounds
PySlice(s, a, b) ==
    LET n == Len(s)
        lo0 == IF a < 0 THEN a + n ELSE a
        hi0 == IF b < 0 THEN b + n ELSE b
        lo == IF lo0 < 0 THEN 0 ELSE MinOf(lo0, n)
        hi == IF hi0 < 0 THEN 0 ELSE MinOf(hi0, n)
    IN [i \in 1..(IF hi > lo THEN hi - lo ELSE 0) |-> s[lo + i]]

\* a call that returned value
Gave(value) == [exc |-> "", value |-> value]

\* a call that raised exc
Threw(exc) == [exc |-> exc, value |-> None]

\* slope(xinp): None without a stored model; else the mean of the model's
\* differences over [xpix-1, xpix+1), as the fraction num/den; 0 when that
\* mean is not finite (the window is empty)
slope(storedModel, storedXax, xinp) ==
    IF storedModel = None THEN Gave(None)
    ELSE LET dm == Diff(storedModel[1])
             xpix == XToPix(storedXax[1], xinp)
             window == PySlice(dm, xpix - 1, xpix + 1)
         IN IF window = <<>> THEN Gave(Some([num |-> 0, den |-> 1]))
            ELSE Gave(Some([num |-> SumSeq(window), den |-> Len(window)]))

\* integral(modelpars): self.model.sum()
integral(storedModel) ==
    IF storedModel = None THEN Threw("AttributeError")
    ELSE Gave(Some(SumSeq(storedModel[1])))

\* svn * npeaks
Recycle(svn, n) == [i \in 1..(Len(svn) * n) |-> svn[((i - 1) % Len(svn)) + 1]]

\* annotations(): one label per (peak, parameter).  A label is kept as the
\* tuple its text is formatted from: name, peak, fitted value, uncertainty.
annotations(self, storedMpp, storedMpperr) ==
    LET total == self.npeaks * self.npars
        svn == IF Len(self.shortvarnames) < total
               THEN Recycle(self.shortvarnames, self.npeaks)
               ELSE self.shortvarnames
    IN
    IF total = 0 THEN Gave(Some(<<>>))
    ELSE IF Len(svn) = 0 THEN Threw("IndexError")
    ELSE IF storedMpp = None THEN Threw("AttributeError")
    ELSE IF Len(svn) < total \/ Len(storedMpp[1]) < total
            \/ Len(storedMpperr[1]) < total
    THEN Threw("IndexError")
    ELSE Gave(Some([k \in 1..total |->
                      <<svn[k], (k - 1) \div self.npars,
                        storedMpp[1][k], storedMpperr[1][k]>>]))

(***************************************************************************)
(* State                                                                   *)
(***************************************************************************)
VARIABLES
    npars,              \* self.npars
    parnames,           \* self.parnames (None: no such attribute)
    shortvarnames,      \* self.shortvarnames
    fitunits,           \* self.fitunits
    npeaks,             \* self.npeaks
    parinfo,            \* self.parinfo
    modelfunc_kwargs,   \* self.modelfunc_kwargs
    mp,                 \* self.mp      (None: no such attribute)
    mpp,                \* self.mpp     (None: no such attribute)
    mpperr,             \* self.mpperr  (None: no such attribute)
    model,              \* self.model   (None: no such attribute)
    xax,                \* self.xax     (None: no such attribute)
    op,                 \* the operation called last
    kwIn,               \* the keyword arguments _make_parinfo got last
    ret,                \* what that _make_parinfo call raised / returned
    again,              \* that call repeated the inputs of the call before it
    prevRet,            \* what the call before it raised / returned
    fitIn,              \* the arguments of the last fitter call
    fitOut,             \* how the last fitter call ended
    before,             \* the stored fit result when the last fitter call began
    everFit,            \* some fitter call has returned normally
    accIn,              \* the arguments of the last accessor call
    accRet              \* what the last accessor call raised / returned

attrs == <<npars, parnames, shortvarnames, fitunits, npeaks, parinfo,
           modelfunc_kwargs>>
stored == <<mp, mpp, mpperr, model, xax>>
builderLog == <<op, kwIn, ret, again, prevRet>>
fitLog == <<fitIn, fitOut, before, everFit>>
accLog == <<accIn, accRet>>
vars == <<attrs, stored, builderLog, fitLog, accLog>>

\* the attributes _make_parinfo reads and writes, as one record
Self ==
    [npars |-> npars, parnames |-> parnames, shortvarnames |-> shortvarnames,
     fitunits |-> fitunits, npeaks |-> npeaks, parinfo |-> parinfo]

\* what a _make_parinfo call hands back to its caller
Returned(r) == [exc |-> r.exc, parinfo |-> r.parinfo, kwargs |-> r.kwargs]

NoRet == [exc |-> "none", parinfo |-> <<>>, kwargs |-> {}]

(***************************************************************************)
(* Inputs                                                                  *)
(***************************************************************************)
NameAmp == <<"a","m","p">>
NameWidth == <<"w","i","d","t","h">>
NameDamp == <<"D","a","m","p">>
NameX == <<"x">>

\* parameter-name lists for np parameters per peak
NamesAmpFirst(np) == [i \in 1..np |-> IF i = 1 THEN NameAmp ELSE NameWidth]
NamesAmpLast(np) == [i \in 1..np |-> IF i = np THEN NameDamp ELSE NameX]
NamesNoAmp(np) == [i \in 1..np |-> IF i = 1 THEN NameX ELSE NameWidth]

\* npeaks left out, or given as 2..MaxPeaks (npeaks=1 is the default)
PeakArgs == {None} \cup {Some(k) : k \in 2..MaxPeaks}

\* params / parvalues / values in every combination
KwValues(np) ==
    { [KwDefault EXCEPT !.params = a, !.parvalues = b, !.values = c] :
        a \in {None, Some(Vals(10, np))},
        b \in {None, Some(Vals(20, np))},
        c \in {None, Some(Vals(30, np))} }

\* limitedmin / limitedmax / minpars / maxpars in every combination for one
\* peak, alone or with an explicit limits argument
KwLimitsOnePeak(np) ==
    { [KwDefault EXCEPT !.limitedmin = lmin, !.limitedmax = lmax,
                        !.minpars = mn, !.maxpars = mx] :
        lmin \in {None, Some(Vals(50, np))},
        lmax \in {None, Some(Vals(60, np))},
        mn \in {None, Some(Vals(70, np))},
        mx \in {None, Some(Vals(80, np))} }
    \cup
    { [KwDefault EXCEPT !.limits = Some(Pairs(300, np)),
                        !.limitedmin = lmin, !.maxpars = mx] :
        lmin \in {None, Some(Vals(50, np))},
        mx \in {None, Some(Vals(80, np))} }

\* each pair form, one-sided and two-sided, for several peaks
KwLimitsPeaks(np) ==
    UNION { LET n == np * k IN
            { [KwDefault EXCEPT !.npeaks = Some(k),
                                !.limitedmin = f[1], !.limitedmax = f[2],
                                !.minpars = f[3], !.maxpars = f[4]] :
                f \in { <<Some(Vals(50, n)), None, None, None>>,
                        <<None, Some(Vals(60, n)), None, None>>,
                        <<Some(Vals(50, n)), Some(Vals(60, n)), None, None>>,
                        <<None, None, Some(Vals(70, n)), None>>,
                        <<None, None, None, Some(Vals(80, n))>>,
                        <<Some(Vals(50, n)), None, Some(Vals(70, n)),
                          Some(Vals(80, n))>> } } : k \in 2..MaxPeaks }

\* negamp with and without limits, limited and new names
KwNegamp(np) ==
    UNION { LET n == np * NpeaksArg([npeaks |-> pk]) IN
            { [KwDefault EXCEPT !.npeaks = pk, !.negamp = na,
                                !.parlimits = lim[1], !.parlimited = lim[2],
                                !.parnames = nm] :
                na \in {Some(TRUE), Some(FALSE)},
                lim \in {<<None, None>>,
                         <<Some(Pairs(100, n)), Some(Repeat(<<1, 1>>, n))>>},
                nm \in {None, Some(NamesAmpLast(np))} } : pk \in PeakArgs }

\* the remaining keywords
KwMisc(np) ==
    { [KwDefault EXCEPT !.fitunits = fx[1], !.extra = fx[2],
                        !.shortvarnames = fx[3],
                        !.parfixed = fx[4], !.tied = fx[5],
                        !.steps = fx[6], !.parerror = fx[7],
                        !.parnames = nm[1], !.names = nm[2]] :
        fx \in {<<None, {}, None, None, None, None, None>>,
                <<Some("GHz"), {<<"maxiter", 5>>}, Some(<<"T", "v">>),
                  Some(Vals(0, np)),
                  Some([i \in 1..np |-> IF i = 1 THEN "" ELSE "p[0]"]),
                  Some(Vals(2, np)), Some(Vals(4, np))>>},
        nm \in {<<None, None>>, <<Some(NamesNoAmp(np)), None>>,
                <<Some(NamesNoAmp(np)), Some(NamesAmpFirst(np))>>} }

KwInputs(np) ==
    KwValues(np) \cup KwLimitsOnePeak(np) \cup KwLimitsPeaks(np)
        \cup KwNegamp(np) \cup KwMisc(np)

\* the keyword arguments given to the constructor
CtorKw(np) ==
    { [KwDefault EXCEPT !.parnames = Some(NamesAmpFirst(np)),
                        !.npeaks = Some(pk),
                        !.fitunits = fu, !.extra = {<<"opt", 1>>}] :
        pk \in 1..MaxPeaks,
        fu \in {None, Some("Hz")} }

(***************************************************************************)
(* SpectralModel.__init__                                                  *)
(***************************************************************************)
\* The instance before __init__ has set anything but npars.
Blank(np) ==
    [npars |-> np, parnames |-> None, shortvarnames |-> None,
     fitunits |-> None, npeaks |-> 0, parinfo |-> <<>>]

Init ==
    \E np \in 1..MaxPars : \E kw \in CtorKw(np) :
        LET r == make_parinfo(Blank(np), kw) IN
        /\ r.exc = ""
        /\ npars = np
        /\ parnames = r.self.parnames
        /\ shortvarnames = r.self.shortvarnames
        /\ fitunits = r.self.fitunits
        /\ npeaks = r.self.npeaks
        /\ parinfo = r.self.parinfo
        /\ modelfunc_kwargs = r.kwargs
        /\ mp = None /\ mpp = None /\ mpperr = None /\ model = None /\ xax = None
        /\ op = "__init__" /\ kwIn = kw /\ ret = Returned(r)
        /\ again = FALSE /\ prevRet = NoRet
        /\ fitIn = None /\ fitOut = None /\ before = None
        /\ everFit = FALSE /\ accIn = None /\ accRet = None

(***************************************************************************)
(* Actions                                                                 *)
(***************************************************************************)
\* the effect of one _make_parinfo call on the attributes and the log
CallMakeParinfo(kw, r) ==
    /\ parnames' = r.self.parnames
    /\ shortvarnames' = r.self.shortvarnames
    /\ fitunits' = r.self.fitunits
    /\ npeaks' = r.self.npeaks
    /\ parinfo' = r.self.parinfo
    /\ kwIn' = kw
    /\ ret' = Returned(r)
    /\ again' = (kw = kwIn)
    /\ prevRet' = IF kw = kwIn THEN ret ELSE NoRet
    /\ UNCHANGED <<npars, modelfunc_kwargs>>

\* a direct call of _make_parinfo
MakeParinfo ==
    \E kw \in KwInputs(npars) : \E r \in {make_parinfo(Self, kw)} :
        /\ CallMakeParinfo(kw, r)
        /\ op' = "_make_parinfo"
        /\ UNCHANGED <<stored, fitLog, accLog>>

\* the arguments of fitter calls on data of length len
Axis(len, conv) ==
    [vals |-> [i \in 1..len |-> i], unit |-> "kHz", convertible |-> conv]

FitDefault(len) ==
    [xax |-> Axis(len, FALSE), data |-> [i \in 1..len |-> Num(i)],
     err |-> Some(Repeat(Num(1), len)), debug |-> FALSE,
     veryverbose |-> FALSE, parinfo |-> None, kw |-> KwDefault]

Samples == {NaN, PosInf, Num(1)}

\* the data of the example: [NaN, 1.0, Inf, 2.0] with error [1, 1, 1, 1]
ExampleData == <<NaN, Num(1), PosInf, Num(2)>>

\* data with and without NaN and Inf samples, with and without errors, with
\* and without initial guesses for the np parameters
FitData(np) ==
    { [FitDefault(MaxLen) EXCEPT !.data = d] : d \in [1..MaxLen -> Samples] }
    \cup { [FitDefault(4) EXCEPT !.data = ExampleData],
           [FitDefault(MaxLen) EXCEPT !.data[1] = NegInf,
                                      !.err = Some(Repeat(Num(2), MaxLen))],
           [FitDefault(MaxLen) EXCEPT !.err = None],
           [FitDefault(MaxLen) EXCEPT !.err = None, !.data[MaxLen] = NaN],
           [FitDefault(MaxLen) EXCEPT
               !.data[1] = PosInf,
               !.kw = [KwDefault EXCEPT !.params = Some(Vals(10, np))]] }

\* a table the caller supplies instead of the class's own
UserParinfo(np) ==
    make_parinfo([Blank(np) EXCEPT !.parnames = Some(NamesNoAmp(np))],
                 [KwDefault EXCEPT !.npeaks = Some(MaxPeaks)]).parinfo

\* the keywords, the axis kinds and the switches of a fitter call
FitControl(np) ==
    { [FitDefault(MaxLen) EXCEPT !.kw = c[1], !.xax = Axis(MaxLen, c[2])] :
        c \in {<<KwDefault, FALSE>>, <<KwDefault, TRUE>>,
               <<[KwDefault EXCEPT !.fitunits = Some("Hz"),
                                   !.extra = {<<"maxiter", 5>>}], TRUE>>,
               <<[KwDefault EXCEPT !.npeaks = Some(MaxPeaks)], FALSE>>,
               <<[KwDefault EXCEPT !.params = Some(Vals(10, np)),
                                   !.values = Some(Vals(30, np))], FALSE>>} }
    \cup
    { [FitDefault(MaxLen) EXCEPT !.debug = sw[1], !.veryverbose = sw[2],
                                 !.parinfo = sw[3]] :
        sw \in {<<TRUE, FALSE, None>>, <<FALSE, TRUE, None>>,
                <<TRUE, TRUE, Some(UserParinfo(np))>>,
                <<FALSE, FALSE, Some(UserParinfo(np))>>} }

\* the stored fit result and the attributes _make_parinfo overwrites, as
\* they are when a fitter call begins
Snapshot ==
    [mp |-> mp, mpp |-> mpp, mpperr |-> mpperr, model |-> model,
     fitunits |-> fitunits, npeaks |-> npeaks]

\* the arguments of a fitter call as the log keeps them (kwIn has the rest)
Logged(a) == [f \in DOMAIN a \ {"kw"} |-> a[f]]

\* fitter raising before mpfit is called: _make_parinfo raises (line 214 or
\* 218), or the data has NaN / Inf samples and err is None (line 229)
FitterNoSolver(a) ==
    \E r \in {make_parinfo(Self, a.kw)} :
        /\ r.exc # "" \/ (AnyBad(a.data) /\ a.err = None)
        /\ CallMakeParinfo(a.kw, r)
        /\ xax' = IF r.exc # "" THEN xax ELSE Some(a.xax)
        /\ fitOut' = Some([exc |-> IF r.exc # "" THEN r.exc ELSE "TypeError",
                           msg |-> "", solverCalls |-> 0, solverArgs |-> None,
                           sol |-> None, retval |-> None])
        /\ op' = "fitter" /\ fitIn' = Some(Logged(a)) /\ before' = Some(Snapshot)
        /\ accIn' = None /\ accRet' = None
        /\ UNCHANGED <<mp, mpp, mpperr, model, everFit>>

\* fitter from the call of mpfit on (lines 236-263), for each result sol
\* mpfit may return
FitterSolver(a) ==
    \E r \in {make_parinfo(Self, a.kw)} :
        /\ r.exc = "" /\ ~(AnyBad(a.data) /\ a.err = None)
        /\ LET table == IF a.parinfo # None THEN a.parinfo[1] ELSE r.parinfo
               axFit == IF a.xax.convertible /\ r.self.fitunits # None
                        THEN ConvertToUnit(a.xax, r.self.fitunits[1])
                        ELSE a.xax
               clean == IF AnyBad(a.data) THEN Sanitize(a.data, a.err[1])
                        ELSE [data |-> a.data,
                              err |-> IF a.err = None THEN <<>> ELSE a.err[1]]
           IN
           \E sol \in SolverOutcomes(Len(table)) :
            LET end == AfterSolver(sol, a.debug)
                perr == IF sol.perror # None THEN sol.perror[1]
                        ELSE [i \in 1..Len(sol.params) |-> sol.params[i] * 0]
                \* line 250 indexes self.parinfo by the fitted parameters
                verboseFails == /\ sol.status # 0 /\ a.veryverbose
                                /\ Len(sol.params) > Len(r.self.parinfo)
                stores == end.stores /\ ~verboseFails
                curve == n_modelfunc(r.self, sol.params, modelfunc_kwargs,
                                     axFit.vals)
                exc == IF verboseFails THEN "IndexError" ELSE end.exc
            IN
            /\ CallMakeParinfo(a.kw,
                 [r EXCEPT !.self.parinfo =
                    IF sol.status # 0 /\ a.veryverbose
                    THEN WriteValues(@, sol.params) ELSE @])
            /\ xax' = Some(a.xax)
            /\ mp' = IF stores THEN Some(sol) ELSE mp
            /\ mpp' = IF stores THEN Some(sol.params) ELSE mpp
            /\ mpperr' = IF stores THEN Some(perr) ELSE mpperr
            /\ model' = IF stores THEN Some(curve) ELSE model
            /\ fitOut' = Some([exc |-> exc,
                               msg |-> IF verboseFails THEN "" ELSE end.msg,
                               solverCalls |-> 1,
                               solverArgs |-> Some([axis |-> axFit,
                                                    data |-> clean.data,
                                                    err |-> clean.err,
                                                    parinfo |-> table,
                                                    kwargs |-> r.kwargs]),
                               sol |-> Some(sol),
                               retval |-> IF exc = ""
                                          THEN Some(<<sol.params, curve, perr,
                                                      sol.fnorm>>)
                                          ELSE None])
            /\ everFit' = (everFit \/ exc = "")
            /\ op' = "fitter" /\ fitIn' = Some(Logged(a)) /\ before' = Some(Snapshot)
            /\ accIn' = None /\ accRet' = None

\* fitter(xax, data, err, debug=, veryverbose=, parinfo=, **kw)
Fitter(a) == FitterNoSolver(a) \/ FitterSolver(a)

\* fits told apart by their data
FitterOnData == \E a \in FitData(npars) : Fitter(a)

\* fits told apart by their keywords, axis and switches
FitterOnControl == \E a \in FitControl(npars) : Fitter(a)

\* the effect of an accessor call: nothing but the log changes
Accessor(name, args, result) ==
    /\ op' = name /\ accIn' = Some(args) /\ accRet' = Some(result)
    /\ fitIn' = None /\ fitOut' = None /\ before' = None
    /\ UNCHANGED <<attrs, stored, kwIn, ret, again, prevRet, everFit>>

Slope ==
    \E xinp \in 0..(MaxLen + 1) :
        Accessor("slope", <<xinp>>, slope(model, xax, xinp))

Integral == Accessor("integral", <<>>, integral(model))

Annotations == Accessor("annotations", <<>>, annotations(Self, mpp, mpperr))

\* the parameter vectors n_modelfunc is called with: k peaks, k from 0 to
\* one more than MaxPeaks, whatever self.npeaks is
ParVectors(np) ==
    UNION { { Vals(b, k * np) : b \in 0..1 }
            \cup { [i \in 1..(k * np) |-> IF i <= np THEN 0 ELSE i] }
            : k \in 0..(MaxPeaks + 1) }

NModelfunc ==
    \E pars \in ParVectors(npars), len \in 1..MaxLen,
       kwargs \in {{}, {<<"opt", 1>>}} :
        Accessor("n_modelfunc",
                 [pars |-> pars, kwargs |-> kwargs, x |-> Axis(len, FALSE).vals],
                 Gave(Some(n_modelfunc(Self, pars, kwargs, Axis(len, FALSE).vals))))

\* _make_parinfo called directly, any number of times
SpecBuilder == Init /\ [][MakeParinfo]_vars

\* fits on data with and without NaN and Inf samples
SpecSanitize == Init /\ [][FitterOnData]_vars

\* fits and the result accessors
NextFit == FitterOnControl \/ Slope \/ Integral \/ Annotations
SpecFit == Init /\ [][NextFit]_vars

\* the model composer
SpecCompose == Init /\ [][NModelfunc]_vars

\* every operation
Next ==
    \/ MakeParinfo
    \/ FitterOnData \/ FitterOnControl
    \/ Slope \/ Integral \/ Annotations
    \/ NModelfunc
Spec == Init /\ [][Next]_vars

(***************************************************************************)
(* Properties of _make_parinfo                                             *)
(***************************************************************************)
BuilderCalled == op = "_make_parinfo"

\* params together with parvalues or its alias values
Conflicting(kw) ==
    kw.params # None /\ (kw.parvalues # None \/ kw.values # None)

\* Every list the caller supplies has one item per (peak, parameter) pair,
\* the name lists one per parameter, and the values are given once.
ValidKw(kw) ==
    LET n == npars * NpeaksArg(kw) IN
    /\ ~Conflicting(kw)
    /\ \A f \in {"params", "parvalues", "parlimits", "parlimited", "parfixed",
                 "parerror", "partied", "parsteps", "values", "limits",
                 "limited", "fixed", "error", "tied", "steps", "limitedmin",
                 "limitedmax", "minpars", "maxpars"} :
            kw[f] = None \/ Len(kw[f][1]) = n
    /\ \A f \in {"parnames", "names"} : kw[f] = None \/ Len(kw[f][1]) = npars

\* the table is peak-major: peak j, parameter i at position j*P+i, index j*P+i
PeakMajor(table, np, npk) ==
    /\ Len(table) = np * npk
    /\ \A j \in 0..(npk - 1) : \A i \in 0..(np - 1) :
          LET p == table[j * np + i + 1] IN
          /\ p.n = j * np + i
          /\ p.parname = Upper(parnames[1][i + 1]) \o FormatInt(j)

\* C1 (as claimed): every valid keyword combination, the limitedmin /
\* limitedmax and minpars / maxpars forms included, makes _make_parinfo
\* return a table of npars*npeaks entries in peak-major order, the entry of
\* peak j, parameter i at position j*npars+i with index j*npars+i.
C1_TableForEveryValidKw ==
    (BuilderCalled /\ ValidKw(kwIn)) =>
        /\ ret.exc = ""
        /\ PeakMajor(ret.parinfo, npars, NpeaksArg(kwIn))

\* the entry of the same call made without negamp
WithoutNegamp(k) ==
    make_parinfo(Self, [kwIn EXCEPT !.negamp = None]).parinfo[k]

\* C2: negamp=True sets upper bound 0 and its flag on every entry whose name
\* contains the amplitude marker and leaves the lower bound and its flag;
\* negamp=False sets lower bound 0 and its flag and leaves the upper bound
\* and its flag; negamp unset changes nothing; entries without the marker
\* are never changed.
C2_Negamp ==
    (BuilderCalled /\ ret.exc = "") =>
        \A k \in 1..Len(ret.parinfo) :
            LET p == ret.parinfo[k]
                q == WithoutNegamp(k)
            IN
            IF kwIn.negamp = None \/ ~Contains(p.parname, AmpMarker)
            THEN /\ p = q
                 /\ kwIn.parlimits # None => p.limits = kwIn.parlimits[1][k]
                 /\ kwIn.parlimited # None => p.limited = kwIn.parlimited[1][k]
            ELSE IF kwIn.negamp[1]
            THEN /\ p.limits[2] = 0 /\ p.limited[2] = 1
                 /\ p.limits[1] = q.limits[1] /\ p.limited[1] = q.limited[1]
                 /\ [p EXCEPT !.limits = 0, !.limited = 0]
                      = [q EXCEPT !.limits = 0, !.limited = 0]
            ELSE /\ p.limits[1] = 0 /\ p.limited[1] = 1
                 /\ p.limits[2] = q.limits[2] /\ p.limited[2] = q.limited[2]
                 /\ [p EXCEPT !.limits = 0, !.limited = 0]
                      = [q EXCEPT !.limits = 0, !.limited = 0]

\* C2 witness: negamp=True on several peaks, an amplitude entry of the second
\* peak keeping a lower bound that was set, next to an untouched entry
C2_Witness ==
    /\ BuilderCalled /\ ret.exc = "" /\ kwIn.negamp = Some(TRUE)
    /\ Len(ret.parinfo) >= 2 * npars
    /\ \E k \in (npars + 1)..Len(ret.parinfo) :
          /\ Contains(ret.parinfo[k].parname, AmpMarker)
          /\ ret.parinfo[k].limits = <<100 + k, 0>>
          /\ ret.parinfo[k].limited = <<1, 1>>
    /\ \E k \in 1..Len(ret.parinfo) :
          /\ ~Contains(ret.parinfo[k].parname, AmpMarker)
          /\ ret.parinfo[k].limits = <<100 + k, 200 + k>>

\* C3: params together with parvalues (or its alias values) always raises
\* ValueError and returns no table; params alone gives the initial values.
C3_Conflict ==
    BuilderCalled =>
        /\ Conflicting(kwIn) => (ret.exc = "ValueError" /\ ret.parinfo = <<>>)
        /\ (kwIn.params # None /\ ~Conflicting(kwIn) /\ ret.exc = "") =>
              \A k \in 1..Len(ret.parinfo) :
                  ret.parinfo[k].value = kwIn.params[1][k]

\* C3 witness: params given with the legacy alias values
C3_Witness ==
    /\ BuilderCalled /\ kwIn.params # None /\ kwIn.values # None
    /\ kwIn.parvalues = None /\ ret.exc = "ValueError"

\* the limits the keyword arguments ask for at flat position k
ExpectedLimits(kw, k) ==
    IF kw.minpars # None \/ kw.maxpars # None
    THEN << IF kw.minpars # None THEN kw.minpars[1][k] ELSE 0,
            IF kw.maxpars # None THEN kw.maxpars[1][k] ELSE 0 >>
    ELSE IF kw.limitedmin # None \/ kw.limitedmax # None
    THEN << IF kw.limitedmin # None THEN kw.limitedmin[1][k] ELSE 0,
            IF kw.limitedmax # None THEN kw.limitedmax[1][k] ELSE 0 >>
    ELSE IF kw.limits # None THEN kw.limits[1][k]
    ELSE IF kw.parlimits # None THEN kw.parlimits[1][k]
    ELSE <<0, 0>>

\* C4: the limits pairs come from limitedmin/limitedmax first and then from
\* minpars/maxpars, whose pairs replace whatever limitedmin/limitedmax or an
\* explicit limits argument produced; the missing side of a one-sided form
\* is false in every pair.
C4_PairForms ==
    (BuilderCalled /\ ret.exc = "" /\ kwIn.negamp = None) =>
        \A k \in 1..Len(ret.parinfo) :
            ret.parinfo[k].limits = ExpectedLimits(kwIn, k)

\* C4 witness: maxpars alone given with limitedmin and an explicit limits
C4_Witness ==
    /\ BuilderCalled /\ ret.exc = ""
    /\ kwIn.limits # None /\ kwIn.limitedmin # None /\ kwIn.maxpars # None
    /\ kwIn.minpars = None
    /\ \A k \in 1..Len(ret.parinfo) : ret.parinfo[k].limits = <<0, 80 + k>>

\* C5: a call repeating the keyword arguments of the call before it returns
\* (or raises) the same as that call did.
C5_Idempotent == again => ret = prevRet

\* C5 witness: a repeated call that returned a table for several peaks
C5_Witness ==
    /\ BuilderCalled /\ again /\ ret.exc = ""
    /\ Len(ret.parinfo) >= 2 * npars /\ kwIn.npeaks # None

(***************************************************************************)
(* Properties of fitter, n_modelfunc and the accessors                     *)
(***************************************************************************)
FitterCalled == op = "fitter"

\* the last fitter call reached mpfit
SolverCalled == FitterCalled /\ fitOut[1].solverCalls = 1

\* C6: with an error array, mpfit gets data 0 and error inf at every sample
\* whose data value is NaN or infinite, and the data value and error entry
\* as passed at every other sample.
C6_Sanitized ==
    (SolverCalled /\ fitIn[1].err # None) =>
        LET d == fitIn[1].data
            e == fitIn[1].err[1]
            got == fitOut[1].solverArgs[1]
        IN /\ Len(got.data) = Len(d) /\ Len(got.err) = Len(e)
           /\ \A i \in 1..Len(d) :
                IF d[i] \in {NaN, PosInf, NegInf}
                THEN got.data[i] = Num(0) /\ got.err[i] = PosInf
                ELSE got.data[i] = d[i] /\ got.err[i] = e[i]

\* C6 witness: data [NaN, 1, Inf, 2] with error [1, 1, 1, 1] reaches mpfit
\* as data [0, 1, 0, 2], error [inf, 1, inf, 1]
C6_Witness ==
    /\ SolverCalled
    /\ fitIn[1].data = <<NaN, Num(1), PosInf, Num(2)>>
    /\ fitIn[1].err = Some(<<Num(1), Num(1), Num(1), Num(1)>>)
    /\ fitOut[1].solverArgs[1].data = <<Num(0), Num(1), Num(0), Num(2)>>
    /\ fitOut[1].solverArgs[1].err = <<PosInf, Num(1), PosInf, Num(1)>>

\* the curve of peak j (from 1) of a flat parameter vector
PeakCurve(pars, kwargs, x, j) ==
    modelfunc(x, SubSeq(pars, (j - 1) * npars + 1, j * npars), kwargs)

\* C7, the value: for a vector of k*npars parameters the composed function
\* gives the elementwise sum of the k single-peak curves, k from the vector
\* and not from self.npeaks; for k = 1 that is the model function's output.
C7_Sum ==
    op = "n_modelfunc" =>
        LET pars == accIn[1].pars
            kwargs == accIn[1].kwargs
            x == accIn[1].x
            k == Len(pars) \div npars
            got == accRet[1].value[1]
        IN /\ Len(got) = Len(x)
           /\ \A i \in 1..Len(x) :
                got[i] = SumSeq([j \in 1..k |-> PeakCurve(pars, kwargs, x, j)[i]])
           /\ k = 1 => got = modelfunc(x, pars, kwargs)

\* C7: the composed function is that sum, and the call changes no attribute
\* of the wrapper.
C7_Compose ==
    /\ []C7_Sum
    /\ [][op' = "n_modelfunc" => UNCHANGED <<attrs, stored>>]_vars

\* C7 witness: three peaks composed while self.npeaks is one
C7_Witness ==
    /\ op = "n_modelfunc" /\ npeaks = 1
    /\ Len(accIn[1].pars) = 3 * npars /\ npars > 1
    /\ Len(accIn[1].x) > 1 /\ accIn[1].kwargs # {}
    /\ accRet[1].value[1][2] = (1 + 3 + 5) * 2 + (2 + 4 + 6) + 3

\* C8 (as claimed): while no fitter call has completed successfully, slope,
\* annotations and integral signal that there is no result (None or an
\* exception) and return nothing computed from stored fit data.
C8_NoResultBeforeSuccess ==
    (op \in {"slope", "annotations", "integral"} /\ ~everFit) =>
        (accRet[1].exc # "" \/ accRet[1].value = None)

\* C9 (as claimed): a fitter call that passes neither fitunits nor npeaks
\* leaves self.fitunits and self.npeaks as they were, builds its table for
\* that peak count and converts the axis to that unit.
C9_FitKeepsUnitAndPeaks ==
    (FitterCalled /\ kwIn.fitunits = None /\ kwIn.npeaks = None) =>
        /\ fitunits = before[1].fitunits
        /\ npeaks = before[1].npeaks
        /\ ret.exc = "" => Len(ret.parinfo) = npars * before[1].npeaks
        /\ (SolverCalled /\ fitIn[1].xax.convertible
              /\ before[1].fitunits # None) =>
                fitOut[1].solverArgs[1].axis.unit = before[1].fitunits[1]

\* C10: a fitter call whose mpfit returns status 0 raises Exception with
\* mpfit's message, returns nothing, leaves self.mp, self.mpp, self.mpperr
\* and self.model as they were, and has called mpfit once.
C10_SolverFailure ==
    (SolverCalled /\ fitOut[1].sol[1].status = 0) =>
        /\ fitOut[1].exc = "Exception"
        /\ fitOut[1].msg = fitOut[1].sol[1].errmsg
        /\ fitOut[1].retval = None
        /\ mp = before[1].mp /\ mpp = before[1].mpp
        /\ mpperr = before[1].mpperr /\ model = before[1].model
        /\ fitOut[1].solverCalls = 1

\* C10 witness: mpfit returns status 0 while an earlier fit is stored
C10_Witness ==
    /\ SolverCalled /\ fitOut[1].sol[1].status = 0
    /\ fitOut[1].exc = "Exception" /\ fitOut[1].msg = "ERROR: input"
    /\ model # None /\ mp # None /\ mp[1].status # 0

====
